---- MODULE Spec2Model ----
(***************************************************************************)
(* A model of the transport layer of mini-sshd: the Session of             *)
(* src/src/session/mod.rs (identification exchange, the packet loop, the   *)
(* sequence counters, disconnect) and the packet unframing of              *)
(* src/src/decoding.rs (decode_packet, get_payload, message_type).         *)
(*                                                                         *)
(* Rust's u32 does not fit TLC's integers, so a u32 is a pair <<hi, lo>>   *)
(* of 16-bit halves and the arithmetic carries by hand.  An arithmetic     *)
(* overflow panics in a build with overflow checks (the dev profile) and   *)
(* wraps in one without (the release profile): overflow_checks is the      *)
(* build the session runs in.                                              *)
(***************************************************************************)
EXTENDS Integers, Sequences, FiniteSets, TLC

\* ------------------------------------------------------------------ bounds
\* Binary packets one session reads.
MaxPackets == 3
\* The largest packet_length field the client sends.
MaxPacketLength == 4
\* The largest padding_length byte the client sends.
MaxPadding == 1
\* The longest identification text (without its line end) the client sends.
MaxLineLen == 5

\* ------------------------------------------------------------- u32 values
Half == 2^16

U32(n) == <<n \div Half, n % Half>>

Zero32 == U32(0)

\* a + b in u32: the wrapped sum, and whether it passed 2^32 - 1.
U32Add(a, b) ==
    LET lo == a[2] + b[2]
        hi == a[1] + b[1] + (lo \div Half)
    IN  [value |-> <<hi % Half, lo % Half>>, overflow |-> hi >= Half]

\* a - b in u32: the wrapped difference, and whether it passed below 0.
U32Sub(a, b) ==
    LET lo == a[2] - b[2]
        borrow == IF lo < 0 THEN 1 ELSE 0
        hi == a[1] - b[1] - borrow
    IN  [value |-> <<(hi + Half) % Half, (lo + Half) % Half>>, overflow |-> hi < 0]

U32Less(a, b) == a[1] < b[1] \/ (a[1] = b[1] /\ a[2] < b[2])

U32Min(a, b) == IF U32Less(b, a) THEN b ELSE a

\* The sum of two u32 modulo 2^32, as mathematics has it (never a panic).
SumMod32(a, b) == U32Add(a, b).value

VARIABLES
    overflow_checks,            \* the build: TRUE panics on overflow, FALSE wraps
    pc,                         \* where Session::start is: "ident", "loop", "done"
    result,                     \* how start ended: "running", "ok", "err", "panic"
    outgoing_packet_sequence,   \* Session.outgoing_packet_sequence (u32)
    incoming_packet_sequence,   \* Session.incoming_packet_sequence (u32)
    client_ident,               \* Session.client_ident
    algorithms,                 \* Session.algorithms: "none" or "negotiated"
    client_kexinit_payload,     \* Session.client_kexinit_payload
    server_kexinit_payload,     \* Session.server_kexinit_payload
    kex_finished,               \* session.kex().finished
    sent,                       \* a tally of what the stream has carried to the client
    rx,                         \* a tally of the binary packets decode_packet has returned
    last,                       \* the last step: its input and what it did
    stream,                     \* the TcpStream's incoming side, in units the client wrote
    reader,                     \* a PayloadReader: its iter and its last extraction
    verified                    \* a decrypted packet and what verify_mac was given

\* The variables the session's own steps leave alone.
aux == <<stream, reader, verified>>

vars == <<overflow_checks, pc, result, outgoing_packet_sequence,
          incoming_packet_sequence, client_ident, algorithms,
          client_kexinit_payload, server_kexinit_payload, kex_finished,
          sent, rx, last, stream, reader, verified>>

\* ------------------------------------------------------- message numbers
\* The message-number registry, MessageType of types.rs (RFC 4253 section 12).
SSH_MSG_DISCONNECT == 1
SSH_MSG_IGNORE == 2
SSH_MSG_UNIMPLEMENTED == 3
SSH_MSG_DEBUG == 4
SSH_MSG_KEXINIT == 20
SSH_MSG_NEWKEYS == 21
SSH_MSG_KEX_ECDH_INIT == 30
SSH_MSG_KEX_ECDH_REPLY == 31

\* The byte values MessageType::from_u8 knows.
MessageTypes ==
    {SSH_MSG_DISCONNECT, SSH_MSG_IGNORE, SSH_MSG_UNIMPLEMENTED, SSH_MSG_DEBUG,
     SSH_MSG_KEXINIT, SSH_MSG_NEWKEYS, SSH_MSG_KEX_ECDH_INIT, SSH_MSG_KEX_ECDH_REPLY}

\* The message types handle_packet has an arm for.
HandledTypes ==
    {SSH_MSG_DISCONNECT, SSH_MSG_IGNORE, SSH_MSG_UNIMPLEMENTED, SSH_MSG_DEBUG,
     SSH_MSG_KEXINIT, SSH_MSG_KEX_ECDH_INIT}

\* A message-type byte outside the registry.
UnregisteredByte == 0

\* The message-type bytes the client sends.
TypeBytes ==
    {UnregisteredByte, SSH_MSG_DISCONNECT, SSH_MSG_IGNORE, SSH_MSG_UNIMPLEMENTED,
     SSH_MSG_DEBUG, SSH_MSG_KEXINIT, SSH_MSG_NEWKEYS, SSH_MSG_KEX_ECDH_INIT}

\* ------------------------------------------------------------- encoding
PACKET_LENGTH_SIZE == 4
\* The block size packets are padded to before a cipher is active.
UnencryptedBlockSize == 8
\* The negotiated cipher's block size and the negotiated MAC's digest size.
CipherBlockSize == 8
MacLen == 20
\* The least padding PacketBuilder adds.
MinPadding == 4

\* The wire length of PacketBuilder::build()'s packet for a payload of
\* payload_len bytes: length field, padding-length byte, payload and at least
\* MinPadding bytes of padding, to a multiple of the block size, and the MAC
\* once the transport is active.
BuiltLen(payload_len, encrypted) ==
    LET bs == IF encrypted THEN CipherBlockSize ELSE UnencryptedBlockSize
        least == PACKET_LENGTH_SIZE + 1 + payload_len + MinPadding
        framed == least + ((bs - (least % bs)) % bs)
    IN  framed + (IF encrypted THEN MacLen ELSE 0)

\* PacketBuilder::new(SSH_MSG_UNIMPLEMENTED).write_u32(value).build()
UnimplementedPacket(value, encrypted) ==
    [kind |-> "packet", msg |-> SSH_MSG_UNIMPLEMENTED, value |-> value,
     len |-> BuiltLen(1 + 4, encrypted)]

\* PacketBuilder::new(SSH_MSG_DISCONNECT).write_byte(reason).write_bytes(b"")
\* .write_bytes(b"en").build(): description "" and language tag "en".
DisconnectPacket(reason, encrypted) ==
    [kind |-> "packet", msg |-> SSH_MSG_DISCONNECT,
     value |-> <<reason, "", "en">>,
     len |-> BuiltLen(1 + 1 + (4 + 0) + (4 + 2), encrypted)]

\* server_config.ident_string, and the line ident_exchange sends: it and "\r\n".
ServerIdentString == <<"S", "S", "H", "-", "2", ".", "0", "-", "x">>

IdentLine ==
    [kind |-> "ident", msg |-> 0, value |-> ServerIdentString,
     len |-> Len(ServerIdentString) + 2]

\* ------------------------------------------------------------ send_packet
\* send_packet: the counter advances by the byte length first, then the bytes
\* are written; write_ok is whether write_all succeeds.
send_packet(out_seq, item, write_ok) ==
    LET s == U32Add(out_seq, U32(item.len))
    IN  IF s.overflow /\ overflow_checks
        THEN [status |-> "panic", seq |-> out_seq, wrote |-> <<>>]
        ELSE IF ~write_ok
        THEN [status |-> "err", seq |-> s.value, wrote |-> <<>>]
        ELSE [status |-> "ok", seq |-> s.value, wrote |-> <<item>>]

\* disconnect(reason): build the disconnect packet and send it.
disconnect(out_seq, reason, write_ok) ==
    send_packet(out_seq, DisconnectPacket(reason, kex_finished), write_ok)

\* ---------------------------------------------------------------- tallies
\* sent counts what was written: identification lines, binary packets, the
\* bytes of the binary packets (modulo 2^32), and the disconnect packets among
\* them.  rx counts the binary packets decoded and their bytes on the wire.
NothingSent == [idents |-> 0, packets |-> 0, bytes |-> Zero32, disconnects |-> 0]

RECURSIVE Tally(_, _)
Tally(t, items) ==
    IF items = <<>> THEN t
    ELSE LET i == Head(items)
         IN  Tally(IF i.kind = "ident"
                   THEN [t EXCEPT !.idents = @ + 1]
                   ELSE [t EXCEPT !.packets = @ + 1,
                                  !.bytes = SumMod32(@, U32(i.len)),
                                  !.disconnects =
                                      @ + (IF i.msg = SSH_MSG_DISCONNECT THEN 1 ELSE 0)],
                   Tail(items))

\* ------------------------------------------------ identification exchange
\* The characters of the identification texts the client sends.
Chars == {"S", "-", ".", "1", "2", "3"}

DigitValue == [c \in {"1", "2", "3"} |-> CASE c = "1" -> 1 [] c = "2" -> 2 [] c = "3" -> 3]

Digits == DOMAIN DigitValue

\* Every text of at most n characters.
Texts(n) == UNION {[1..k -> Chars] : k \in 0..n}

\* The line ends read_line can stop at: end of stream, "\n", "\r\n"; the
\* number is the bytes the line end takes.
LineEnds == 0..2

\* The place of the first '-' in s, 0 when there is none.
FirstDash(s) ==
    IF \E i \in 1..Len(s) : s[i] = "-"
    THEN CHOOSE i \in 1..Len(s) : s[i] = "-" /\ \A j \in 1..(i - 1) : s[j] # "-"
    ELSE 0

\* client_ident.split('-').nth(1): the second '-'-separated field, if any.
SplitNth1(s) ==
    LET i == FirstDash(s)
        rest == SubSeq(s, i + 1, Len(s))
        j == FirstDash(rest)
    IN  IF i = 0 THEN [some |-> FALSE, str |-> <<>>]
        ELSE [some |-> TRUE,
              str |-> IF j = 0 THEN rest ELSE SubSeq(rest, 1, j - 1)]

RECURSIVE DecimalValue(_)
\* The number a run of digits writes.
DecimalValue(ds) ==
    IF ds = <<>> THEN 0
    ELSE 10 * DecimalValue(SubSeq(ds, 1, Len(ds) - 1)) + DigitValue[ds[Len(ds)]]

\* str.parse::<f32>() on a text of digits and '.': digits with at most one
\* '.', at least one digit in all.  The value is num / scale before rounding.
ParseF32(str) ==
    LET dots == {i \in 1..Len(str) : str[i] = "."}
        wellformed == /\ \A i \in 1..Len(str) : str[i] \in Digits \cup {"."}
                      /\ Cardinality(dots) <= 1
                      /\ Len(str) > Cardinality(dots)
        dot == IF dots = {} THEN Len(str) + 1 ELSE CHOOSE i \in dots : TRUE
        ds == SubSeq(str, 1, dot - 1) \o SubSeq(str, dot + 1, Len(str))
    IN  IF wellformed
        THEN [ok |-> TRUE, num |-> DecimalValue(ds), scale |-> 10 ^ (Len(str) + 1 - dot - (IF dots = {} THEN 0 ELSE 1))]
        ELSE [ok |-> FALSE, num |-> 0, scale |-> 1]

\* (2.0..3.0).contains(&v) for v the f32 nearest to num / scale: a value within
\* half a unit in the last place below 2.0 rounds to 2.0, one within half a
\* unit below 3.0 rounds to 3.0.
RangeContains(num, scale) ==
    /\ 2 * scale - num <= scale \div (2 ^ 24)
    /\ 3 * scale - num > scale \div (2 ^ 23)

\* ident_exchange with the range check closed at 3.0: (2.0..=3.0).
version_accepted_mut(text) ==
    LET field == SplitNth1(text)
        parsed == ParseF32(field.str)
    IN  /\ field.some
        /\ parsed.ok
        /\ 2 * parsed.scale - parsed.num <= parsed.scale \div (2 ^ 24)
        /\ parsed.num <= 3 * parsed.scale

\* Whether ident_exchange accepts the client's text: the second field parses
\* and the number is in the range.
version_accepted(text) ==
    LET field == SplitNth1(text)
        parsed == ParseF32(field.str)
    IN  field.some /\ parsed.ok /\ RangeContains(parsed.num, parsed.scale)

\* How far ident_exchange gets.  s1 is the send of the server's line, n the
\* incoming counter advanced by the bytes read_line returned.
ident_stage(text, line_end, read_ok, s1, n) ==
    IF s1.status # "ok" THEN "send"
    ELSE IF ~read_ok THEN "read"                        \* an I/O error, or not UTF-8
    ELSE IF n.overflow /\ overflow_checks THEN "count"
    ELSE IF text = <<>> /\ line_end = 0 THEN "unwrap"   \* lines().next().unwrap()
    ELSE IF version_accepted(text) THEN "accepted"
    ELSE "rejected"

\* ident_exchange without the return after the disconnect of a line it turns
\* away: the session goes on to the packets.
ident_exit_mut(stage, s1, d) ==
    CASE stage \in {"accepted", "rejected"} -> [pc |-> "loop", result |-> "running"]
      [] stage = "send" -> [pc |-> "done", result |-> s1.status]
      [] stage \in {"count", "unwrap"} -> [pc |-> "done", result |-> "panic"]
      [] OTHER -> [pc |-> "done", result |-> "err"]

\* How ident_exchange leaves, and what start does next: on Ok the loop, on
\* Err the return through `?`, on a panic the abort.  s1 is the send of the
\* server's line, d the disconnect of a line turned away.
ident_exit(stage, s1, d) ==
    CASE stage = "accepted" -> [pc |-> "loop", result |-> "running"]
      [] stage = "send" -> [pc |-> "done", result |-> s1.status]
      [] stage \in {"count", "unwrap"} -> [pc |-> "done", result |-> "panic"]
      [] stage = "rejected" /\ d.status = "panic" -> [pc |-> "done", result |-> "panic"]
      [] OTHER -> [pc |-> "done", result |-> "err"]

\* ident_exchange, and start's return when it fails.  text and line_end are
\* the line the client sends, read_ok whether read_line succeeds, w1 and w2
\* whether the writes of the server's line and of the disconnect succeed.  An
\* input nothing reads is fixed: no line when nothing is read, no failing
\* write when nothing is written.
IdentExchangeStep(TextSet, EndSet) ==
    /\ pc = "ident"
    /\ \E w1 \in BOOLEAN : \E read_ok \in (IF w1 THEN BOOLEAN ELSE {TRUE}) :
       \E text \in (IF w1 /\ read_ok THEN TextSet ELSE {<<>>}),
          line_end \in (IF w1 /\ read_ok THEN EndSet ELSE {0}) :
       \E s1 \in {send_packet(outgoing_packet_sequence, IdentLine, w1)},
          n \in {U32Add(incoming_packet_sequence, U32(Len(text) + line_end))} :
       \E stage \in {ident_stage(text, line_end, read_ok, s1, n)} :
       \E w2 \in (IF stage = "rejected" THEN BOOLEAN ELSE {TRUE}) :
       \E d \in {disconnect(s1.seq, "SSH_DISCONNECT_PROTOCOL_VERSION_NOT_SUPPORTED", w2)} :
       \E wrote \in {s1.wrote \o (IF stage = "rejected" THEN d.wrote ELSE <<>>)} :
            /\ outgoing_packet_sequence' =
                 IF stage = "rejected" /\ d.status # "panic" THEN d.seq ELSE s1.seq
            /\ sent' = Tally(sent, wrote)
            /\ incoming_packet_sequence' =
                 IF stage \in {"send", "read", "count"} THEN incoming_packet_sequence
                 ELSE n.value
            /\ client_ident' = IF stage = "accepted" THEN text ELSE client_ident
            /\ pc' = ident_exit(stage, s1, d).pc
            /\ result' = ident_exit(stage, s1, d).result
            /\ last' = [op |-> "ident_exchange", stage |-> stage, text |-> text,
                        line_end |-> line_end, wrote |-> wrote,
                        write_ok |-> IF stage = "rejected" THEN w2 ELSE w1]
    /\ UNCHANGED <<overflow_checks, algorithms, client_kexinit_payload,
                   server_kexinit_payload, kex_finished, rx>>

\* ident_exchange on a line the client is taken to send.
IdentExchange(TextSet, EndSet) ==
    /\ IdentExchangeStep(TextSet, EndSet)
    /\ UNCHANGED aux

\* -------------------------------------------------------------- decoding
\* What a decode or a handler ends in.
Panic == [kind |-> "panic", why |-> "panic"]
Err(why) == [kind |-> "err", why |-> why]

\* get_payload(packet, packet_length).  packet is the packet region after the
\* length field: its length, its first byte (the padding length) and its
\* second byte (the first payload byte, the message type).  Of the payload
\* the model keeps the length and the first byte.
get_payload(packet, packet_length) ==
    LET padding_length == U32(packet.first)
        \* let n1 = packet_length - (padding_length as u32) - 1;
        a == U32Sub(packet_length, padding_length)
        n1 == U32Sub(a.value, U32(1))
        \* reader.take(n1): at most what is left after the first byte
        left == U32Sub(packet.length, U32(1)).value
        payload_len == U32Min(n1.value, left)
        \* let bytes_left = packet_length - 1 - n1 - padding_length as u32;
        b == U32Sub(packet_length, U32(1))
        c == U32Sub(b.value, n1.value)
        bytes_left == U32Sub(c.value, padding_length)
    IN  IF packet.length = Zero32 THEN Panic            \* first().unwrap()
        ELSE IF overflow_checks /\ (a.overflow \/ n1.overflow) THEN Panic
        ELSE IF overflow_checks /\ (b.overflow \/ c.overflow \/ bytes_left.overflow)
        THEN Panic
        ELSE IF bytes_left.value # Zero32 THEN Err("framing")
        ELSE [kind |-> "ok", payload_len |-> payload_len,
              first |-> IF payload_len = Zero32 THEN -1 ELSE packet.second,
              packet_length |-> packet_length]

\* decode_packet_unencrypted: the four length bytes, then exactly
\* packet_length bytes; a read_exact the stream ends in is an error.
decode_packet_unencrypted(wire) ==
    IF wire.stream # "full" THEN Err("read")
    ELSE get_payload([length |-> wire.packet_length, first |-> wire.padding_length,
                      second |-> wire.msg], wire.packet_length)

\* decode_packet_encrypted without the return on a MAC that does not verify.
decode_packet_encrypted_mut(wire) ==
    IF algorithms = "none" THEN Panic
    ELSE IF wire.stream = "eof" THEN Err("read")
    ELSE IF U32Less(wire.packet_length, U32(CipherBlockSize - PACKET_LENGTH_SIZE))
    THEN Panic
    ELSE IF wire.stream = "eof_body" THEN Err("read")
    ELSE get_payload([length |-> wire.packet_length, first |-> wire.padding_length,
                      second |-> wire.msg], wire.packet_length)

\* decode_packet_encrypted: wire is the packet as it decrypts.  The rest of
\* the packet is packet_length - (block_size - 4) bytes, in usize: below zero
\* it panics with overflow checks and without them asks vec! for a buffer no
\* allocation can give, which panics too.
decode_packet_encrypted(wire) ==
    IF algorithms = "none" THEN Panic                    \* algorithms().as_ref().unwrap()
    ELSE IF wire.stream = "eof" THEN Err("read")
    ELSE IF U32Less(wire.packet_length, U32(CipherBlockSize - PACKET_LENGTH_SIZE))
    THEN Panic
    ELSE IF wire.stream = "eof_body" THEN Err("read")
    ELSE IF ~wire.mac_ok THEN Err("mac")
    ELSE get_payload([length |-> wire.packet_length, first |-> wire.padding_length,
                      second |-> wire.msg], wire.packet_length)

\* decode_packet
decode_packet(wire) ==
    IF kex_finished THEN decode_packet_encrypted(wire)
    ELSE decode_packet_unencrypted(wire)

\* DecodedPacket::entire_packet_length: the bytes the packet took on the wire.
entire_packet_length(packet) ==
    U32Add(packet.packet_length,
           U32(PACKET_LENGTH_SIZE + (IF kex_finished THEN MacLen ELSE 0))).value

\* DecodedPacket::message_type, with u8_to_MessageType.
message_type(packet) ==
    IF packet.payload_len = Zero32 THEN Err("empty")
    ELSE IF packet.first \notin MessageTypes THEN Err("type")
    ELSE [kind |-> "ok", type |-> packet.first]

\* ------------------------------------------------------------ sub-handlers
\* The payload lengths of the server's KEXINIT, of its key-exchange reply and
\* of NEWKEYS (the first two depend on the configuration; the values are
\* nominal).
ServerKexinitPayloadLen == 62
KexReplyPayloadLen == 100
NewKeysPayloadLen == 1

ServerKexinit(encrypted) ==
    [kind |-> "packet", msg |-> SSH_MSG_KEXINIT, value |-> "kexinit",
     len |-> BuiltLen(ServerKexinitPayloadLen, encrypted)]

KexReply(encrypted) ==
    [kind |-> "packet", msg |-> SSH_MSG_KEX_ECDH_REPLY, value |-> "reply",
     len |-> BuiltLen(KexReplyPayloadLen, encrypted)]

NewKeys(encrypted) ==
    [kind |-> "packet", msg |-> SSH_MSG_NEWKEYS, value |-> "newkeys",
     len |-> BuiltLen(NewKeysPayloadLen, encrypted)]

\* What a sub-handler can end in: success, a payload it cannot decode, and,
\* for the negotiation, no common algorithm in a required category.
SubOutcomes == {"ok", "malformed", "no_match"}

\* The frame of a handler that touches nothing but the counters.
Arm(st, out_seq, wrote) ==
    [status |-> st, out_seq |-> out_seq, wrote |-> wrote,
     algorithms |-> algorithms, client_kexinit |-> client_kexinit_payload,
     server_kexinit |-> server_kexinit_payload, kex_finished |-> kex_finished,
     used_write |-> FALSE, used_sub |-> FALSE]

\* Session::algorithm_negotiation: keeps the client's KEXINIT payload, sends
\* the server's KEXINIT and keeps its payload, selects the algorithms.  With
\* no common algorithm it disconnects with key-exchange-failed and fails.
\* A retained payload is named by the packet it came with: <<k>> is the
\* payload of the k-th packet decoded, or the server's answer to it.
algorithm_negotiation(packet, io) ==
    LET s == send_packet(outgoing_packet_sequence, ServerKexinit(kex_finished), io.write_ok)
        d == disconnect(outgoing_packet_sequence, "SSH_DISCONNECT_KEY_EXCHANGE_FAILED",
                        io.write_ok)
    IN  CASE io.sub = "malformed" ->
              [Arm("err", outgoing_packet_sequence, <<>>) EXCEPT !.used_sub = TRUE]
          [] io.sub = "no_match" ->
              [Arm(IF d.status = "panic" THEN "panic" ELSE "err", d.seq, d.wrote)
                  EXCEPT !.used_sub = TRUE, !.used_write = TRUE]
          [] OTHER ->
              IF s.status # "ok"
              THEN [Arm(s.status, s.seq, <<>>) EXCEPT !.used_sub = TRUE, !.used_write = TRUE]
              ELSE [Arm("continue", s.seq, s.wrote) EXCEPT
                      !.used_sub = TRUE, !.used_write = TRUE,
                      !.algorithms = "negotiated",
                      !.client_kexinit = <<rx.packets + 1>>,
                      !.server_kexinit = <<rx.packets + 1>>]

\* Session::key_exchange: sends the key-exchange reply and NEWKEYS, after
\* which the transport uses the derived keys.
key_exchange(packet, io) ==
    LET s1 == send_packet(outgoing_packet_sequence, KexReply(kex_finished), TRUE)
        s2 == send_packet(s1.seq, NewKeys(kex_finished), TRUE)
    IN  IF io.sub # "ok"
        THEN [Arm("err", outgoing_packet_sequence, <<>>) EXCEPT !.used_sub = TRUE]
        ELSE IF s1.status = "panic" \/ s2.status = "panic"
        THEN [Arm("panic", s1.seq, s1.wrote) EXCEPT !.used_sub = TRUE]
        ELSE [Arm("continue", s2.seq, s1.wrote \o s2.wrote) EXCEPT
                !.used_sub = TRUE, !.kex_finished = TRUE]

\* --------------------------------------------------------- handle_packet
\* The dispatch of handle_packet on a decoded packet's message type, with the
\* incoming counter already advanced to in_seq.
dispatch(packet, msg_type, in_seq, io) ==
    CASE msg_type = SSH_MSG_DISCONNECT ->
            Arm("SSH_DISCONNECT_BY_APPLICATION", outgoing_packet_sequence, <<>>)
      [] msg_type \in {SSH_MSG_IGNORE, SSH_MSG_UNIMPLEMENTED, SSH_MSG_DEBUG} ->
            Arm("continue", outgoing_packet_sequence, <<>>)
      [] msg_type = SSH_MSG_KEXINIT -> algorithm_negotiation(packet, io)
      [] msg_type = SSH_MSG_KEX_ECDH_INIT -> key_exchange(packet, io)
      [] OTHER ->
            LET s == send_packet(outgoing_packet_sequence,
                                 UnimplementedPacket(in_seq, kex_finished), io.write_ok)
            IN  [Arm(IF s.status = "ok" THEN "continue" ELSE s.status, s.seq, s.wrote)
                    EXCEPT !.used_write = TRUE]

\* handle_packet from the decoded packet on: advance the incoming counter
\* (n is the sum), read the message type (t), dispatch.
handle_decoded(packet, n, t, io) ==
    IF packet.kind # "ok"
    THEN [arm |-> Arm(packet.kind, outgoing_packet_sequence, <<>>), decoded |-> FALSE,
          in_seq |-> incoming_packet_sequence, dispatched |-> FALSE,
          why |-> packet.why, wire_len |-> Zero32]
    ELSE IF n.overflow /\ overflow_checks
    THEN [arm |-> Arm("panic", outgoing_packet_sequence, <<>>), decoded |-> TRUE,
          in_seq |-> incoming_packet_sequence, dispatched |-> FALSE,
          why |-> "count", wire_len |-> entire_packet_length(packet)]
    ELSE IF t.kind # "ok"
    THEN [arm |-> Arm("err", outgoing_packet_sequence, <<>>), decoded |-> TRUE,
          in_seq |-> n.value, dispatched |-> FALSE, why |-> t.why,
          wire_len |-> entire_packet_length(packet)]
    ELSE [arm |-> dispatch(packet, t.type, n.value, io), decoded |-> TRUE,
          in_seq |-> n.value, dispatched |-> TRUE, why |-> "dispatch",
          wire_len |-> entire_packet_length(packet)]

\* self.incoming_packet_sequence += packet.entire_packet_length()
count_packet(packet) ==
    IF packet.kind = "ok"
    THEN U32Add(incoming_packet_sequence, entire_packet_length(packet))
    ELSE [value |-> incoming_packet_sequence, overflow |-> FALSE]

\* handle_packet: decode, advance the incoming counter, read the message type,
\* dispatch.  status is what start sees: "continue" (Ok(None)), a disconnect
\* reason (Ok(Some(reason))), "err", "panic".
handle_received(packet, io) ==
    handle_decoded(packet, count_packet(packet),
                   IF packet.kind = "ok" THEN message_type(packet) ELSE Err("none"), io)

handle_packet(wire, io) == handle_received(decode_packet(wire), io)

Streams == {"full", "eof", "eof_body"}

Wire(packet_length, padding_length, msg, st, mac_ok) ==
    [packet_length |-> packet_length, padding_length |-> padding_length,
     msg |-> msg, stream |-> st, mac_ok |-> mac_ok]

\* What the environment decides in one iteration: whether the write of a
\* reply succeeds, and what a sub-handler ends in.
IOs == [write_ok : BOOLEAN, sub : SubOutcomes]

\* Inputs that differ only in a part nothing reads are one input: a byte the
\* stream does not deliver or the packet has no room for is 0, a MAC nothing
\* verifies is good, a write or a sub-handler that does not run succeeds.
Lengths(LengthSet, st) == IF st = "eof" THEN {Zero32} ELSE LengthSet

Paddings(packet_length, st) ==
    IF st # "full" \/ packet_length = Zero32 THEN {0} ELSE 0..MaxPadding

Msgs(packet_length, st) ==
    IF st # "full" \/ U32Less(packet_length, U32(2)) THEN {0} ELSE TypeBytes

Macs(st) == IF kex_finished /\ st = "full" THEN BOOLEAN ELSE {TRUE}

\* The outcomes a packet of this message type can meet: only an arm that
\* sends meets a failing write, only an arm with a sub-handler its outcomes.
IOsFor(msg) ==
    {io \in IOs :
        /\ (msg \in HandledTypes \ {SSH_MSG_KEXINIT} \/ msg \notin MessageTypes)
              => io.write_ok
        /\ (msg \notin {SSH_MSG_KEXINIT, SSH_MSG_KEX_ECDH_INIT}) => (io.sub = "ok")
        /\ (msg = SSH_MSG_KEX_ECDH_INIT) => (io.sub # "no_match")}

Canonical(wire, io, e) ==
    /\ ~e.arm.used_write => io.write_ok
    /\ ~e.arm.used_sub => (io.sub = "ok")
    /\ (wire.msg = SSH_MSG_KEX_ECDH_INIT) => (io.sub # "no_match")

\* The small packet lengths.
SmallLengths == {U32(n) : n \in 0..MaxPacketLength}

\* start's match on what handle_packet returned: an error leaves through `?`,
\* Ok(None) loops, Ok(Some(reason)) breaks the loop, after a disconnect packet
\* unless the reason is SSH_DISCONNECT_BY_APPLICATION.
start_match_mut(arm, write_ok) ==
    LET d == disconnect(arm.out_seq, arm.status, write_ok)
    IN  CASE arm.status = "continue" ->
              [pc |-> "loop", result |-> "running", out_seq |-> arm.out_seq, wrote |-> <<>>]
          [] arm.status \in {"err", "panic"} ->
              [pc |-> "done", result |-> arm.status, out_seq |-> arm.out_seq, wrote |-> <<>>]
          [] OTHER ->
              [pc |-> "done", result |-> IF d.status = "ok" THEN "ok" ELSE d.status,
               out_seq |-> d.seq, wrote |-> d.wrote]

start_match(arm, write_ok) ==
    LET d == disconnect(arm.out_seq, arm.status, write_ok)
    IN  CASE arm.status = "continue" ->
              [pc |-> "loop", result |-> "running", out_seq |-> arm.out_seq, wrote |-> <<>>]
          [] arm.status \in {"err", "panic"} ->
              [pc |-> "done", result |-> arm.status, out_seq |-> arm.out_seq, wrote |-> <<>>]
          [] arm.status # "SSH_DISCONNECT_BY_APPLICATION" ->
              [pc |-> "done", result |-> IF d.status = "ok" THEN "ok" ELSE d.status,
               out_seq |-> d.seq, wrote |-> d.wrote]
          [] OTHER ->
              [pc |-> "done", result |-> "ok", out_seq |-> arm.out_seq, wrote |-> <<>>]

\* One iteration of start's loop on the packet the stream yields:
\* handle_packet, then start's own match on what it returned.  An error
\* leaves start through `?`; a peer's disconnect breaks the loop with nothing
\* sent.
HandleWire(wire, io) ==
    /\ pc = "loop"
    /\ rx.packets < MaxPackets
    /\ \E e \in {handle_packet(wire, io)} :
       \E m \in {start_match(e.arm, io.write_ok)} :
            /\ Canonical(wire, io, e)
            /\ incoming_packet_sequence' = e.in_seq
            /\ outgoing_packet_sequence' = m.out_seq
            /\ sent' = Tally(sent, e.arm.wrote \o m.wrote)
            /\ algorithms' = e.arm.algorithms
            /\ client_kexinit_payload' = e.arm.client_kexinit
            /\ server_kexinit_payload' = e.arm.server_kexinit
            /\ kex_finished' = e.arm.kex_finished
            /\ rx' = IF e.decoded
                     THEN [packets |-> rx.packets + 1,
                           bytes |-> SumMod32(rx.bytes, e.wire_len)]
                     ELSE rx
            /\ pc' = m.pc
            /\ result' = m.result
            /\ last' = [op |-> "handle_packet", wire |-> wire, io |-> io,
                        encrypted |-> kex_finished, decoded |-> e.decoded,
                        dispatched |-> e.dispatched, why |-> e.why,
                        status |-> e.arm.status, wrote |-> e.arm.wrote \o m.wrote,
                        seq_before |-> incoming_packet_sequence,
                        wire_len |-> e.wire_len]
    /\ UNCHANGED <<overflow_checks, client_ident>>

\* One iteration of start's loop, over the packets the client can send.
HandlePacket(LengthSet) ==
    /\ pc = "loop"
    /\ rx.packets < MaxPackets
    /\ \E st \in Streams : \E packet_length \in Lengths(LengthSet, st) :
       \E padding_length \in Paddings(packet_length, st),
          msg \in Msgs(packet_length, st), mac_ok \in Macs(st) :
       \E io \in IOsFor(msg) :
            HandleWire(Wire(packet_length, padding_length, msg, st, mac_ok), io)
    /\ UNCHANGED aux

\* ------------------------------------------------------- specification
\* Session::new, in either build.
SessionNew ==
    /\ overflow_checks \in BOOLEAN
    /\ pc = "ident"
    /\ result = "running"
    /\ outgoing_packet_sequence = Zero32
    /\ incoming_packet_sequence = Zero32
    /\ client_ident = <<>>
    /\ algorithms = "none"
    /\ client_kexinit_payload = <<>>
    /\ server_kexinit_payload = <<>>
    /\ kex_finished = FALSE
    /\ sent = NothingSent
    /\ rx = [packets |-> 0, bytes |-> Zero32]
    /\ last = [op |-> "new"]

\* Nothing from the client yet, no payload under a reader, no MAC verified.
NoStream == [sent |-> 0, socket |-> <<>>, delivered |-> <<>>]
NoReader == [iter |-> <<>>, out |-> [op |-> "new"]]
NoVerify == [op |-> "new"]

Init ==
    /\ SessionNew
    /\ stream = NoStream
    /\ reader = NoReader
    /\ verified = NoVerify

\* The identification texts of the packet-loop specification.
SampleTexts ==
    {<<>>, <<"S", "-", "2", "-">>, <<"S", "-", "3", "-">>, <<"S">>}

Next ==
    \/ IdentExchange(SampleTexts, {2})
    \/ HandlePacket(SmallLengths)

Spec == Init /\ [][Next]_vars

\* A packet of 2^31 - 4 bytes after its length field: 2^31 bytes on the wire.
JumboLength == <<(Half \div 2) - 1, Half - PACKET_LENGTH_SIZE>>

\* The packet loop with a client that also sends packets of that length.
NextJumbo ==
    \/ IdentExchange(SampleTexts, {2})
    \/ HandlePacket(SmallLengths \cup {JumboLength})

SpecJumbo == Init /\ [][NextJumbo]_vars

\* ------------------------------------------------------ payload reader
\* The longest field body a payload under the reader has.
MaxField == 3

\* The bytes of the field bodies: ',' (44) and 'a' (97), and 255, which no
\* UTF-8 text holds.
Comma == 44
BodyBytes == {Comma, 97, 255}

\* The four bytes of a u32, most significant first (u32::to_be_bytes).
to_be_bytes(v) == <<v[1] \div 256, v[1] % 256, v[2] \div 256, v[2] % 256>>

\* The payloads put under the reader: a length field declaring 0 to
\* MaxField + 1 bytes, then a body of at most MaxField bytes (shorter, as long
\* or longer than declared), and the payloads too short for a length field.
Payloads ==
    {to_be_bytes(U32(n)) \o body :
        n \in 0..(MaxField + 1),
        body \in UNION {[1..k -> BodyBytes] : k \in 0..MaxField}}
    \cup {[i \in 1..k |-> 0] : k \in 0..(PACKET_LENGTH_SIZE - 1)}

\* u8_array_to_u32: an array of four bytes is the u32 they write, most
\* significant first; any other array is an error.
u8_array_to_u32(array) ==
    IF Len(array) # 4 THEN Err("length")
    ELSE [kind |-> "ok", value |-> <<array[1] * 256 + array[2], array[3] * 256 + array[4]>>]

\* iter.take(n).collect(): the next n items, or all that are left when they
\* are fewer; Rest is the iterator after it.
Take(iter, n) == SubSeq(iter, 1, IF n < Len(iter) THEN n ELSE Len(iter))
Rest(iter, n) == SubSeq(iter, (IF n < Len(iter) THEN n ELSE Len(iter)) + 1, Len(iter))

\* take(length as usize) for a u32 length: an iterator is shorter than 2^16.
TakeLen(length, iter) == IF length[1] > 0 THEN Len(iter) ELSE length[2]

\* String::from_utf8 on bytes of BodyBytes and 0: 255 is in no UTF-8 text,
\* a byte below 128 is a character by itself.
from_utf8_ok(bytes) == \A i \in 1..Len(bytes) : bytes[i] < 128

RECURSIVE split(_)
\* value.split(',').map(String::from).collect(): the pieces between the
\* commas; with no comma, the one piece that is the whole value, empty or not.
split(value) ==
    IF \E i \in 1..Len(value) : value[i] = Comma
    THEN LET i == CHOOSE i \in 1..Len(value) :
                      value[i] = Comma /\ \A j \in 1..(i - 1) : value[j] # Comma
         IN  <<SubSeq(value, 1, i - 1)>> \o split(SubSeq(value, i + 1, Len(value)))
    ELSE <<value>>

\* What an extraction leaves: the iterator after it and what it returned.
Extracted(iter, kind, value) == [iter |-> iter, kind |-> kind, value |-> value]

\* PayloadReader::next_name_list
next_name_list(iter) ==
    LET length_bytes == Take(iter, PACKET_LENGTH_SIZE)
        after_length == Rest(iter, PACKET_LENGTH_SIZE)
        length == u8_array_to_u32(length_bytes)
        n == TakeLen(length.value, after_length)
        value_bytes == Take(after_length, n)
    IN  IF length.kind # "ok" THEN Extracted(after_length, "err", <<>>)
        ELSE IF ~from_utf8_ok(value_bytes)
        THEN Extracted(Rest(after_length, n), "err", <<>>)
        ELSE Extracted(Rest(after_length, n), "ok", split(value_bytes))

\* PayloadReader::next_string
next_string(iter) ==
    LET length_bytes == Take(iter, PACKET_LENGTH_SIZE)
        after_length == Rest(iter, PACKET_LENGTH_SIZE)
        length == u8_array_to_u32(length_bytes)
        n == TakeLen(length.value, after_length)
    IN  IF length.kind # "ok" THEN Extracted(after_length, "err", <<>>)
        ELSE Extracted(Rest(after_length, n), "ok", Take(after_length, n))

\* PayloadReader::next_byte: None at the end.
next_byte(iter) ==
    IF iter = <<>> THEN Extracted(iter, "none", <<>>)
    ELSE Extracted(Tail(iter), "ok", <<Head(iter)>>)

\* PayloadReader::next_n_bytes
next_n_bytes(iter, n) == Extracted(Rest(iter, n), "ok", Take(iter, n))

\* An extraction on the reader: out keeps which, its n, the iterator it
\* started from and what it returned.
Extract(op, n, e) ==
    /\ reader' = [iter |-> e.iter,
                  out |-> [op |-> op, n |-> n, before |-> reader.iter,
                           kind |-> e.kind, value |-> e.value]]
    /\ UNCHANGED <<overflow_checks, pc, result, outgoing_packet_sequence,
                   incoming_packet_sequence, client_ident, algorithms,
                   client_kexinit_payload, server_kexinit_payload, kex_finished,
                   sent, rx, last, stream, verified>>

NextNameList == Extract("next_name_list", 0, next_name_list(reader.iter))

NextString == Extract("next_string", 0, next_string(reader.iter))

NextByte == Extract("next_byte", 0, next_byte(reader.iter))

NextNBytes == \E n \in 0..(MaxField + 1) : Extract("next_n_bytes", n, next_n_bytes(reader.iter, n))

\* PayloadReader::new on each payload.
InitReader ==
    /\ SessionNew
    /\ stream = NoStream
    /\ verified = NoVerify
    /\ \E payload \in Payloads : reader = [iter |-> payload, out |-> [op |-> "new"]]

NextReader == NextNameList \/ NextString \/ NextByte \/ NextNBytes

SpecReader == InitReader /\ [][NextReader]_vars

\* ---------------------------------------------------------- MAC input
\* The longest packet (its packet_length) whose bytes are followed to the MAC.
MaxBody == 6

\* The bytes of those packets, and the sequence numbers they arrive under.
PlainBytes == {0, 7, 255}
SequenceNumbers == {Zero32, U32(7), <<Half - 1, Half - 1>>}

\* encode_string: the bytes as an SSH string, their number as a u32 and then
\* the bytes.
encode_string(bytes) == to_be_bytes(U32(Len(bytes))) \o bytes

\* The decrypted bytes of the packets the client sends in encrypted mode:
\* the length field, then as many bytes as it says, at least the rest of the
\* first cipher block.
Plaintexts ==
    UNION {{to_be_bytes(U32(n)) \o body : body \in [1..n -> PlainBytes]} :
              n \in (CipherBlockSize - PACKET_LENGTH_SIZE)..MaxBody}

\* The message decode_packet_encrypted hands to verify_mac, with the length
\* field left in packet_dec.
mac_message_mut(first_block_dec, rest_dec) ==
    encode_string(first_block_dec \o rest_dec)

\* The message decode_packet_encrypted hands to verify_mac: packet_dec is the
\* first block after the length field and then the rest; the message is
\* encode_string(&packet_dec).
mac_message(first_block_dec, rest_dec) ==
    encode_string(SubSeq(first_block_dec, PACKET_LENGTH_SIZE + 1, Len(first_block_dec))
                  \o rest_dec)

\* What verify_mac computes the tag over: the sequence number, then the
\* message.
verify_mac_input(sequence_number, message) == to_be_bytes(sequence_number) \o message

\* decode_packet_encrypted up to verify_mac, on the bytes the stream decrypts
\* to: the first block, the length in its first four bytes, the rest.
DecodeEncryptedBytes ==
    /\ verified.op = "stream"
    /\ kex_finished
    /\ algorithms # "none"
    /\ \E first_block_dec \in {SubSeq(verified.plaintext, 1, CipherBlockSize)} :
       \E packet_length \in {u8_array_to_u32(SubSeq(first_block_dec, 1, PACKET_LENGTH_SIZE)).value} :
       \E rest_dec \in {SubSeq(verified.plaintext, CipherBlockSize + 1,
                                PACKET_LENGTH_SIZE + packet_length[2])} :
       \E message \in {mac_message(first_block_dec, rest_dec)} :
            verified' = [op |-> "verify_mac",
                         plaintext |-> verified.plaintext,
                         sequence_number |-> incoming_packet_sequence,
                         message |-> message,
                         mac_input |-> verify_mac_input(incoming_packet_sequence, message)]
    /\ UNCHANGED <<overflow_checks, pc, result, outgoing_packet_sequence,
                   incoming_packet_sequence, client_ident, algorithms,
                   client_kexinit_payload, server_kexinit_payload, kex_finished,
                   sent, rx, last, stream, reader>>

\* A session after its key exchange, at a packet of the client.
InitMac ==
    /\ overflow_checks \in BOOLEAN
    /\ pc = "loop"
    /\ result = "running"
    /\ outgoing_packet_sequence \in SequenceNumbers
    /\ incoming_packet_sequence \in SequenceNumbers
    /\ client_ident = <<"S", "-", "2", "-">>
    /\ algorithms = "negotiated"
    /\ client_kexinit_payload = <<1>>
    /\ server_kexinit_payload = <<1>>
    /\ kex_finished = TRUE
    /\ sent = NothingSent
    /\ rx = [packets |-> 2, bytes |-> Zero32]
    /\ last = [op |-> "new"]
    /\ stream = NoStream
    /\ reader = NoReader
    /\ \E plaintext \in Plaintexts : verified = [op |-> "stream", plaintext |-> plaintext]

NextMac == DecodeEncryptedBytes

SpecMac == InitMac /\ [][NextMac]_vars

\* ------------------------------------------------------- byte stream
\* The units the client writes on a connection: the identification line,
\* unit 0, and then packets.
MaxUnits == 6

\* The client's line, and its k-th packet: SSH_MSG_IGNORE and SSH_MSG_DEBUG
\* in turn, each well formed.
ClientLine == <<"S", "-", "2", "-">>

ClientPacket(k) ==
    Wire(U32(2), 0, IF k % 2 = 1 THEN SSH_MSG_IGNORE ELSE SSH_MSG_DEBUG, "full", TRUE)

\* The client writes its next unit; it arrives whole and waits in the socket
\* behind what the server has not read.
ClientWrite ==
    /\ stream.sent < MaxUnits
    /\ stream' = [stream EXCEPT !.sent = @ + 1, !.socket = Append(@, stream.sent)]
    /\ UNCHANGED <<overflow_checks, pc, result, outgoing_packet_sequence,
                   incoming_packet_sequence, client_ident, algorithms,
                   client_kexinit_payload, server_kexinit_payload, kex_finished,
                   sent, rx, last, reader, verified>>

\* BufReader::new(stream) and the first read through it: the buffer is
\* filled by one read of the stream, which takes what has arrived (the units
\* here are far smaller than the buffer).
BufReaderFill(socket) == socket

\* The BufReader is dropped when the reading function returns: the stream is
\* left without what the buffer took, and only the unit that was read is
\* handed on.
StreamAfterRead(did_read) ==
    IF did_read
    THEN [stream EXCEPT
             !.socket = SubSeq(@, Len(BufReaderFill(@)) + 1, Len(@)),
             !.delivered = Append(@, Head(BufReaderFill(stream.socket)))]
    ELSE stream

\* ident_exchange on the stream: read_line through a BufReader of its own.
StreamIdentExchange ==
    /\ stream.socket # <<>>
    /\ IdentExchangeStep({ClientLine}, {2})
    /\ stream' = StreamAfterRead(last'.stage \notin {"send", "read"})
    /\ UNCHANGED <<reader, verified>>

\* One iteration of start's loop on the stream: decode_packet reads through
\* a BufReader of its own.
StreamHandlePacket ==
    /\ stream.socket # <<>>
    /\ HandleWire(ClientPacket(Head(BufReaderFill(stream.socket))),
                  [write_ok |-> TRUE, sub |-> "ok"])
    /\ stream' = StreamAfterRead(last'.decoded)
    /\ UNCHANGED <<reader, verified>>

NextStream == ClientWrite \/ StreamIdentExchange \/ StreamHandlePacket

SpecStream == Init /\ [][NextStream]_vars

\* The identification exchange alone, over every text the bound allows.
NextIdent == IdentExchange(Texts(MaxLineLen), LineEnds)

SpecIdent == Init /\ [][NextIdent]_vars

\* ================================================================ claims
\* The last step handled a packet.
Handled == last.op = "handle_packet"

\* A packet is well formed: the stream delivers all of it, its MAC verifies,
\* its padding leaves at least the message-type byte of payload, and in
\* encrypted mode it is at least the rest of the first cipher block long.
WellFormed(wire, encrypted) ==
    /\ wire.stream = "full"
    /\ wire.mac_ok
    /\ ~U32Less(wire.packet_length, U32(wire.padding_length + 2))
    /\ encrypted => ~U32Less(wire.packet_length, U32(CipherBlockSize - PACKET_LENGTH_SIZE))

\* The places in a run of written items that hold a packet of type msg.
PacketsOf(items, msg) ==
    {i \in 1..Len(items) : items[i].kind = "packet" /\ items[i].msg = msg}

\* C1: a well-formed packet whose message-type byte is not one the session
\* handles, a byte outside the registry included, does not end the connection:
\* handle_packet returns Ok(None), the loop goes on, and exactly one
\* SSH_MSG_UNIMPLEMENTED packet is sent in response (the write succeeding).
C1_UnhandledTypeAnsweredOnce ==
    (/\ Handled
     /\ last.decoded
     /\ WellFormed(last.wire, last.encrypted)
     /\ last.wire.msg \notin HandledTypes
     /\ last.io.write_ok)
    => (/\ last.status = "continue"
        /\ pc = "loop"
        /\ result = "running"
        /\ Len(last.wrote) = 1
        /\ PacketsOf(last.wrote, SSH_MSG_UNIMPLEMENTED) = {1})

\* C2: the u32 an SSH_MSG_UNIMPLEMENTED reply carries is the incoming sequence
\* number under which the offending packet was received, not a value already
\* advanced past it.
C2_UnimplementedCarriesOffendingSequence ==
    Handled =>
        \A i \in PacketsOf(last.wrote, SSH_MSG_UNIMPLEMENTED) :
            last.wrote[i].value = last.seq_before

\* C3: outgoing_packet_sequence is the sum, modulo 2^32, of the byte lengths
\* of the binary packets that were actually sent, and of nothing else.
C3_OutgoingIsSumOfPacketsSent ==
    outgoing_packet_sequence = sent.bytes

\* C4: every packet received advances incoming_packet_sequence by its exact
\* wire length modulo 2^32, whatever its message type: past 2^32 - 1 the
\* counter wraps and the session goes on.
C4_IncomingAdvancesByWireLength ==
    (Handled /\ last.decoded) =>
        /\ last.why # "count"
        /\ incoming_packet_sequence = SumMod32(last.seq_before, last.wire_len)

\* C5: the incoming sequence number is a counter of packets, advanced by one
\* for every packet received: the k-th packet is received under k - 1.
C5_SequenceCountsPackets ==
    (Handled /\ last.decoded) =>
        /\ last.seq_before = U32(rx.packets - 1)
        /\ incoming_packet_sequence = U32(rx.packets)

\* The places of the '-' characters of a text.
Dashes(text) == {i \in 1..Len(text) : text[i] = "-"}

\* The k-th smallest member of a set of numbers.
Nth(S, k) == CHOOSE x \in S : Cardinality({y \in S : y < x}) = k - 1

\* A token reads as a number in [2.0, 3.0).
InVersionRange(token) ==
    LET parsed == ParseF32(token)
    IN  parsed.ok /\ RangeContains(parsed.num, parsed.scale)

\* The token between the first and the second '-' of a text reads as a number
\* in [2.0, 3.0); a text with fewer than two '-' has no such token.
TokenBetweenDashesInRange(text) ==
    /\ Cardinality(Dashes(text)) >= 2
    /\ InVersionRange(SubSeq(text, Nth(Dashes(text), 1) + 1, Nth(Dashes(text), 2) - 1))

\* The text after the first '-', up to the second '-' or, when there is none,
\* to the end of the line, reads as a number in [2.0, 3.0).
FieldAfterFirstDashInRange(text) ==
    /\ Dashes(text) # {}
    /\ InVersionRange(SubSeq(text, Nth(Dashes(text), 1) + 1,
                             IF Cardinality(Dashes(text)) >= 2
                             THEN Nth(Dashes(text), 2) - 1 ELSE Len(text)))

\* The identification exchange read a line of the client.
LineRead ==
    last.op = "ident_exchange" /\ last.stage \notin {"send", "read", "unwrap"}

\* What the identification exchange does with a line, given which lines are
\* to be accepted: an accepted line is stored and the session goes on to the
\* packets; any other line is answered with one disconnect packet, reason
\* protocol-version-not-supported (if the write succeeds), and start returns
\* an error with no packet read.
IdentOutcome(accept) ==
    /\ last.stage \in {"accepted", "rejected"}
    /\ (last.stage = "accepted") <=> accept
    /\ (last.stage = "accepted") =>
          (client_ident = last.text /\ pc = "loop" /\ result = "running"
           /\ sent.disconnects = 0)
    /\ (last.stage = "rejected") =>
          /\ pc = "done" /\ result = "err" /\ rx.packets = 0
          /\ client_ident = <<>>
          /\ sent.disconnects = (IF last.write_ok THEN 1 ELSE 0)
          /\ PacketsOf(last.wrote, SSH_MSG_DISCONNECT) = (IF last.write_ok THEN {2} ELSE {})
          /\ \A i \in PacketsOf(last.wrote, SSH_MSG_DISCONNECT) :
                last.wrote[i].value =
                    <<"SSH_DISCONNECT_PROTOCOL_VERSION_NOT_SUPPORTED", "", "en">>

C7_ErrorSendsDisconnect ==
    (Handled /\ last.status = "err" /\ last.wire.stream = "full" /\ last.io.write_ok)
        => PacketsOf(last.wrote, SSH_MSG_DISCONNECT) # {}

\* The iteration under way handles a packet the dispatcher took for the
\* client's SSH_MSG_DISCONNECT.
PeerDisconnectStep ==
    /\ pc = "loop"
    /\ Handled'
    /\ last'.dispatched
    /\ last'.wire.msg = SSH_MSG_DISCONNECT

\* C8: when the client's SSH_MSG_DISCONNECT is handled, nothing is written
\* (no reply, the outgoing counter and what was sent stay as they were), the
\* loop is left so that no further packet is read, and start returns Ok.
C8_PeerDisconnectEndsQuietly ==
    [][PeerDisconnectStep =>
          /\ last'.wrote = <<>>
          /\ sent' = sent
          /\ outgoing_packet_sequence' = outgoing_packet_sequence
          /\ last'.status = "SSH_DISCONNECT_BY_APPLICATION"
          /\ pc' = "done"
          /\ result' = "ok"]_vars

\* The client's SSH_MSG_DISCONNECT ended a session that had sent packets.
C8_Witness ==
    /\ Handled
    /\ last.dispatched
    /\ last.wire.msg = SSH_MSG_DISCONNECT
    /\ sent.packets > 0
    /\ result = "ok"

\* The iteration under way decodes, under the negotiated keys, a packet whose
\* MAC does not verify.
BadMacStep ==
    /\ pc = "loop"
    /\ Handled'
    /\ last'.encrypted
    /\ ~last'.wire.mac_ok

\* The decoder gets as far as verifying the MAC of the packet it is given:
\* the algorithms are there, the first block announces a length that leaves
\* a rest to read, and the rest and the MAC arrive.
MacVerified(wire) ==
    /\ algorithms # "none"
    /\ wire.stream = "full"
    /\ ~U32Less(wire.packet_length, U32(CipherBlockSize - PACKET_LENGTH_SIZE))

\* C9: in encrypted mode a packet whose MAC does not verify is not delivered:
\* the packet is neither counted nor dispatched, the session's fields stay as
\* they were, nothing is written, and start ends without success, which ends
\* the connection; when the decoder verifies the MAC, decode_packet returns
\* the MAC error and start returns it.
C9_BadMacNeverDelivered ==
    [][BadMacStep =>
          /\ ~last'.decoded
          /\ ~last'.dispatched
          /\ last'.wrote = <<>>
          /\ UNCHANGED <<incoming_packet_sequence, outgoing_packet_sequence,
                         client_ident, algorithms, client_kexinit_payload,
                         server_kexinit_payload, kex_finished, sent, rx>>
          /\ pc' = "done"
          /\ result' \in {"err", "panic"}
          /\ MacVerified(last'.wire) =>
                (last'.why = "mac" /\ last'.status = "err" /\ result' = "err")]_vars

\* A packet with a bad MAC came after the key exchange and ended the session.
C9_Witness ==
    /\ Handled
    /\ last.encrypted
    /\ ~last.wire.mac_ok
    /\ last.why = "mac"
    /\ pc = "done"

\* C10: a packet that arrived whole with padding_length + 1 > packet_length
\* is rejected with a framing error.
C10_ShortPacketIsFramingError ==
    (Handled /\ ~last.encrypted /\ last.wire.stream = "full"
       /\ U32Less(last.wire.packet_length, U32(last.wire.padding_length + 1)))
        => (last.why = "framing" /\ last.status = "err")

\* C11 to C12 are stated with the payload reader, C16 with the MAC input and
\* C18 with the byte stream, further down.

\* C13: once algorithm negotiation has completed, no later packet changes the
\* selected algorithms or the retained KEXINIT payloads.
C13_AlgorithmsReadOnlyOnceNegotiated ==
    [][algorithms = "negotiated" =>
          UNCHANGED <<algorithms, client_kexinit_payload, server_kexinit_payload>>]_vars

\* C14: key exchange is run only after algorithm negotiation has completed:
\* a step that dispatches SSH_MSG_KEX_ECDH_INIT starts from negotiated
\* algorithms.
C14_KeyExchangeOnlyAfterNegotiation ==
    [][(pc = "loop" /\ Handled' /\ last'.dispatched
          /\ last'.wire.msg = SSH_MSG_KEX_ECDH_INIT)
       => algorithms = "negotiated"]_vars

\* C15: a decode in encrypted mode with the negotiated algorithms absent ends
\* in an error decode_packet returns, never in an abort.
C15_EncryptedDecodeWithoutAlgorithmsIsError ==
    [][(pc = "loop" /\ kex_finished /\ algorithms = "none" /\ Handled')
       => (last'.status = "err" /\ result' = "err")]_vars

\* C17: decoding a packet ends in a DecodedPacket or in an error value, never
\* in an abort, whatever packet_length and padding_length are.
C17_DecodeNeverAborts ==
    (Handled /\ ~last.decoded) => (last.status = "err" /\ last.why # "panic")

\* C19: when the client closes the connection before sending a line (the read
\* returns nothing and the stream is at its end), ident_exchange ends in an
\* error start returns, never in an abort.
C19_EmptyIdentReadIsError ==
    (/\ last.op = "ident_exchange"
     /\ last.stage \notin {"send", "read"}
     /\ last.text = <<>>
     /\ last.line_end = 0)
    => (pc = "done" /\ result = "err")

\* The last thing written in the step is a disconnect packet.
DisconnectWrittenLast ==
    /\ last'.wrote # <<>>
    /\ PacketsOf(last'.wrote, SSH_MSG_DISCONNECT) = {Len(last'.wrote)}

\* C20: the server sends at most one disconnect packet and it is the last
\* thing it sends: no step is taken by a session that has written one, and the
\* step that writes it writes it last and leaves the session done.
C20_DisconnectIsSentOnceAndLast ==
    [][/\ sent.disconnects = 0
       /\ sent'.disconnects <= 1
       /\ (sent'.disconnects = 1) => (pc' = "done" /\ DisconnectWrittenLast)]_vars

\* A line with version 3 was turned away: the server's line, then the
\* disconnect, then nothing.
C20_Witness ==
    /\ last.op = "ident_exchange"
    /\ last.stage = "rejected"
    /\ sent.disconnects = 1
    /\ Len(last.wrote) = 2
    /\ pc = "done"

\* The reader made an extraction.
Extraction == reader.out.op # "new"

\* Fewer bytes were left than the extraction needs: fewer than n, none for a
\* byte, fewer than the four length bytes or than the length they declare.
ShortOf(out) ==
    CASE out.op = "next_n_bytes" -> Len(out.before) < out.n
      [] out.op = "next_byte" -> out.before = <<>>
      [] OTHER ->
           \/ Len(out.before) < 4
           \/ out.before[1] * 256 + out.before[2] > 0
           \/ out.before[3] * 256 + out.before[4] > Len(out.before) - 4

\* C11: an extraction that finds fewer bytes than it needs reports a failure
\* (an error, or None for next_byte) and returns no bytes.
C11_ShortReadIsFailure ==
    (Extraction /\ ShortOf(reader.out)) => reader.out.kind # "ok"

\* The field a name-list extraction started from is all there and is text:
\* four length bytes, then the bytes they declare, none of them 255.
WholeField(out) ==
    /\ ~ShortOf(out)
    /\ \A i \in 5..(4 + out.before[4]) : out.before[i] < 128

\* The field's body.
FieldBody(out) == SubSeq(out.before, 5, 4 + out.before[4])

RECURSIVE Joined(_)
\* The names of a list written with commas between them.
Joined(names) ==
    IF Len(names) = 1 THEN names[1]
    ELSE names[1] \o <<Comma>> \o Joined(Tail(names))

\* C12: next_name_list decodes a field into the list of its comma-separated
\* names, k names for k - 1 commas in wire order, and a zero-length field
\* into the empty list.
C12_NameListDecodes ==
    (Extraction /\ reader.out.op = "next_name_list" /\ WholeField(reader.out)) =>
        /\ reader.out.kind = "ok"
        /\ IF FieldBody(reader.out) = <<>>
           THEN reader.out.value = <<>>
           ELSE /\ Len(reader.out.value) =
                     1 + Cardinality({i \in 1..Len(FieldBody(reader.out)) :
                                         FieldBody(reader.out)[i] = Comma})
                /\ Joined(reader.out.value) = FieldBody(reader.out)

\* The decoder handed a packet to verify_mac.
MacChecked == verified.op = "verify_mac"

\* C16 as stated: the MAC is verified over the sequence number followed by
\* the full decrypted packet (length field, padding-length byte, payload and
\* padding), that whole byte run encoded as a length-prefixed string.
C16_MacOverStringOfFullPacket ==
    MacChecked =>
        verified.mac_input =
            to_be_bytes(verified.sequence_number)
            \o to_be_bytes(U32(Len(verified.plaintext))) \o verified.plaintext

\* C16 as amended: the MAC is verified over the sequence number followed by
\* the full decrypted packet (length field, padding-length byte, payload and
\* padding), once; the length-prefixed string encoding is applied to the bytes
\* after the length field only, and its prefix is the length field.
C16_MacOverFullPacket ==
    MacChecked =>
        /\ verified.mac_input =
              to_be_bytes(verified.sequence_number) \o verified.plaintext
        /\ verified.message =
              to_be_bytes(U32(Len(verified.plaintext) - PACKET_LENGTH_SIZE))
              \o SubSeq(verified.plaintext, PACKET_LENGTH_SIZE + 1, Len(verified.plaintext))

\* A packet longer than its first cipher block was verified under a sequence
\* number that is not zero.
C16_Witness ==
    /\ MacChecked
    /\ verified.sequence_number = U32(7)
    /\ Len(verified.plaintext) > CipherBlockSize

\* C18: no byte the client sent is lost between reads: the units the server's
\* reads hand on are the units the client wrote, in order and with none left
\* out.
C18_UnitsReadAreUnitsWritten ==
    \A i \in 1..Len(stream.delivered) : stream.delivered[i] = i - 1

====
